---- MODULE Spec2Model ----
(***************************************************************************)
(* Model of dlhub_sdk.client.DLHubClient: the publication pipeline         *)
(* (publish_servable, _stage_data, publish_repository), the task status    *)
(* query (get_task_status) and the invocation path (run).                  *)
(*                                                                         *)
(* Paths are sequences of one-character strings so that os.path.join and   *)
(* str.split are computed the way posixpath computes them.  URL paths of   *)
(* the HTTP service are plain strings built with \o.                       *)
(***************************************************************************)
EXTENDS Integers, Sequences, FiniteSets, TLC

(* ------------------------------ bounds -------------------------------- *)
\* number of calls the caller issues on one client
MaxCalls == 2
\* number of distinct random names mkstemp can draw
NumTmpNames == 2
\* number of publish_servable calls that may be in flight together
MaxConcurrent == 2

Calls == 1..MaxCalls

Letters == <<"a", "b", "c", "d", "e", "f", "g", "h">>
Digits == <<"1", "2", "3", "4", "5", "6", "7", "8">>

(* --------------------------- python values ---------------------------- *)
\* None for path-valued variables; None and '' are both falsy in Python
None == <<>>
PyNone == [type |-> "NoneType"]
PyStr(s) == [type |-> "str", s |-> s]
PyObj(d) == [type |-> "object", d |-> d]

Pending == [kind |-> "pending"]
Return(v) == [kind |-> "return", value |-> v]
Raise(e, a) == [kind |-> "raise", exc |-> e, arg |-> a]

(* ------------------------------ os.path ------------------------------- *)
sep == "/"

startswith_sep(s) == Len(s) > 0 /\ s[1] = sep
endswith_sep(s) == Len(s) > 0 /\ s[Len(s)] = sep

\* one iteration of the loop of posixpath.join
join2(path, b) ==
    IF startswith_sep(b) THEN b
    ELSE IF path = <<>> \/ endswith_sep(path) THEN path \o b
    ELSE path \o <<sep>> \o b

RECURSIVE os_path_join(_)
os_path_join(parts) ==
    IF Len(parts) = 1 THEN parts[1]
    ELSE join2(os_path_join(SubSeq(parts, 1, Len(parts) - 1)), parts[Len(parts)])

MaxOf(S) == CHOOSE m \in S : \A n \in S : n <= m

\* s.split("/")[-1]
split_last(s) ==
    LET idx == {i \in 1..Len(s) : s[i] = sep}
    IN IF idx = {} THEN s ELSE SubSeq(s, MaxOf(idx) + 1, Len(s))

\* os.path.dirname
dirname(s) ==
    LET idx == {i \in 1..Len(s) : s[i] = sep}
    IN IF idx = {} THEN <<>> ELSE SubSeq(s, 1, MaxOf(idx) - 1)

(* --------------------------- _stage_data names ------------------------ *)
dest_dir == <<"s", "e", "r", "v", "a", "b", "l", "e", "s", "/">>
bucket_name == <<"d", "l", "h", "u", "b", "-", "a", "n", "l">>
s3_scheme == <<"s", "3", ":", "/", "/">>
zip_suffix == <<".", "z", "i", "p">>

\* tempfile.gettempdir() and tempfile.template
gettempdir == <<"/", "t", "m", "p">>
template == <<"t", "m", "p">>

\* the name mkstemp(suffix) builds from a random string
mkstemp_name(rand, suffix) == os_path_join(<<gettempdir, template \o rand \o suffix>>)

TmpPaths == {mkstemp_name(<<Letters[i]>>, zip_suffix) : i \in 1..NumTmpNames}

\* str(uuid.uuid4()): as many values as there are calls
Uuids == {<<"u", Digits[i]>> : i \in 1..MaxCalls}

\* line 232
destpath_of(uuid, zip_filename) == os_path_join(<<dest_dir, uuid, split_last(zip_filename)>>)

\* a _stage_data that returns the uploaded object's key instead of its parent
staged_path_is_key(uuid, zip_filename) == os_path_join(<<s3_scheme, bucket_name, destpath_of(uuid, zip_filename)>>)

\* line 236
staged_path_of(uuid, zip_filename) == os_path_join(<<s3_scheme, bucket_name, dest_dir, uuid>>)

(* ------------------------------ files --------------------------------- *)
NoFile == [kind |-> "absent", owner |-> 0]
Placeholder(c) == [kind |-> "placeholder", owner |-> c]
Archive(c) == [kind |-> "zip", owner |-> c]
PartialArchive(c) == [kind |-> "partial", owner |-> c]

(* --------------------------- metadata model --------------------------- *)
\* a model is described by whether set_inputs / set_outputs were called
Models == [input : BOOLEAN, output : BOOLEAN]

pickle_path == <<"/", "m", "/", "p", "k", "l">>

to_dict_raises(model) == ~model.input \/ ~model.output

to_dict(model, simplify_paths) ==
    [datacite |-> [creators |-> <<>>, titles |-> <<"None">>, publisher |-> "DLHub",
                   resourceType |-> "InteractiveResource"],
     dlhub |-> [version |-> "0.1", domain |-> "None", visible_to |-> <<"public">>],
     servable |-> [langugage |-> "python", type |-> "pickled_class",
                   location |-> IF simplify_paths THEN split_last(pickle_path) ELSE pickle_path,
                   run |-> [handler |-> "python_shim.run_class_method",
                            input |-> [type |-> "ndarray"],
                            output |-> [type |-> "ndarray"]]]]

NoMetadata == [dlhub |-> [unset |-> TRUE]]

\* metadata['dlhub']['transfer_method'] = {'S3': staged_path}
set_transfer_method(metadata, staged_path) ==
    [metadata EXCEPT !.dlhub = @ @@ ("transfer_method" :> [S3 |-> staged_path])]

has_transfer_method(metadata) == "transfer_method" \in DOMAIN metadata.dlhub

(* ------------------------------ service ------------------------------- *)
TaskIds == {"t1", "t2"}
Statuses == {200, 201, 404}
TaskStates == {"PENDING", "SUCCEEDED"}
InputTypes == {"python", "json", "files", "xml", "JSON"}
Authors == {"alice"}
Names == {"m1"}
Repositories == {"repo1"}

(* ------------------------------- state -------------------------------- *)
VARIABLES
    pc,            \* position of each call
    op,            \* the operation and arguments of each call
    fs,            \* the local temporary directory: path -> file
    bucket,        \* objects held by the storage service
    metadata,      \* publish_servable: metadata
    dest_uuid,     \* _stage_data: dest_uuid
    zip_filename,  \* _stage_data: zip_filename
    staged_path,   \* _stage_data's pending return value, then publish_servable: staged_path
    reported,      \* which diagnostic _stage_data printed
    r,             \* run: the response of self.post
    ret,           \* how the call ended: return value or raised exception
    log            \* per call, the calls made to the validator, the storage client and HTTP

vars == <<pc, op, fs, bucket, metadata, dest_uuid, zip_filename, staged_path, reported, r, ret, log>>

NoOp == [name |-> "none"]
NoResponse == [http_status |-> 0, data |-> PyNone]

Init ==
    /\ pc = [c \in Calls |-> "idle"]
    /\ op = [c \in Calls |-> NoOp]
    /\ fs = [p \in TmpPaths |-> NoFile]
    /\ bucket = {}
    /\ metadata = [c \in Calls |-> NoMetadata]
    /\ dest_uuid = [c \in Calls |-> None]
    /\ zip_filename = [c \in Calls |-> None]
    /\ staged_path = [c \in Calls |-> None]
    /\ reported = [c \in Calls |-> "nothing"]
    /\ r = [c \in Calls |-> NoResponse]
    /\ ret = [c \in Calls |-> Pending]
    /\ log = [c \in Calls |-> <<>>]

\* calls are issued one after the other by the caller
Sequential(c) == \A d \in Calls : (d < c => pc[d] = "done") /\ (d > c => pc[d] = "idle")

Finish(c, outcome) ==
    /\ pc' = [pc EXCEPT ![c] = "done"]
    /\ ret' = [ret EXCEPT ![c] = outcome]

Goto(c, label) ==
    /\ pc' = [pc EXCEPT ![c] = label]
    /\ UNCHANGED ret

Logged(c, event) == log' = [log EXCEPT ![c] = Append(@, event)]

(* ========================== publish_servable ========================== *)
BeginPublishServable(c) ==
    /\ pc[c] = "idle"
    /\ Sequential(c)
    /\ \E m \in Models : op' = [op EXCEPT ![c] = [name |-> "publish_servable", model |-> m]]
    /\ Goto(c, "to_dict")
    /\ UNCHANGED <<fs, bucket, metadata, dest_uuid, zip_filename, staged_path, reported, r, log>>

\* the same call issued while other calls of the process are in flight
BeginPublishServableConcurrent(c) ==
    /\ pc[c] = "idle"
    /\ c <= MaxConcurrent
    /\ \E m \in Models : op' = [op EXCEPT ![c] = [name |-> "publish_servable", model |-> m]]
    /\ Goto(c, "to_dict")
    /\ UNCHANGED <<fs, bucket, metadata, dest_uuid, zip_filename, staged_path, reported, r, log>>

\* a publish_servable that stages the data although serialization failed
PublishToDict_ignored(c) ==
    /\ pc[c] = "to_dict"
    /\ metadata' = [metadata EXCEPT ![c] = to_dict(op[c].model, TRUE)]
    /\ Goto(c, "stage_begin")
    /\ UNCHANGED <<op, fs, bucket, dest_uuid, zip_filename, staged_path, reported, r, log>>

\* line 176: metadata = model.to_dict(simplify_paths=True)
PublishToDict(c) ==
    /\ pc[c] = "to_dict"
    /\ IF to_dict_raises(op[c].model)
       THEN /\ Finish(c, Raise("ValueError", "inputs/outputs not set"))
            /\ UNCHANGED metadata
       ELSE /\ metadata' = [metadata EXCEPT ![c] = to_dict(op[c].model, TRUE)]
            /\ Goto(c, "stage_begin")
    /\ UNCHANGED <<op, fs, bucket, dest_uuid, zip_filename, staged_path, reported, r, log>>

\* lines 218-223: the storage resource and a fresh uuid4.  Two draws of
\* uuid4 are taken to differ (122 random bits); which value is drawn is free.
StageBegin(c) ==
    /\ pc[c] = "stage_begin"
    /\ \E u \in Uuids \ {dest_uuid[d] : d \in Calls} :
          dest_uuid' = [dest_uuid EXCEPT ![c] = u]
    /\ Goto(c, "mkstemp")
    /\ UNCHANGED <<op, fs, bucket, metadata, zip_filename, staged_path, reported, r, log>>

\* lines 225-226: mkstemp creates a file under a name that does not exist;
\* exclusive creation is what keeps its names apart, so any absent name may
\* be drawn
MkStemp(c) ==
    /\ pc[c] = "mkstemp"
    /\ \E p \in TmpPaths :
          /\ fs[p] = NoFile
          /\ fs' = [fs EXCEPT ![p] = Placeholder(c)]
          /\ zip_filename' = [zip_filename EXCEPT ![c] = p]
    /\ Goto(c, "unlink_placeholder")
    /\ UNCHANGED <<op, bucket, metadata, dest_uuid, staged_path, reported, r, log>>

\* line 227: os.unlink(zip_filename), outside the try block
UnlinkPlaceholder(c) ==
    /\ pc[c] = "unlink_placeholder"
    /\ IF fs[zip_filename[c]] = NoFile
       THEN /\ Finish(c, Raise("FileNotFoundError", zip_filename[c]))
            /\ UNCHANGED fs
       ELSE /\ fs' = [fs EXCEPT ![zip_filename[c]] = NoFile]
            /\ Goto(c, "get_zip_file")
    /\ UNCHANGED <<op, bucket, metadata, dest_uuid, zip_filename, staged_path, reported, r, log>>

\* line 230: servable.get_zip_file(zip_filename); it writes the archive, or
\* raises before the file is created, or raises after it was created.
\* An exception is caught at line 241 and printed.
GetZipFile(c) ==
    /\ pc[c] = "get_zip_file"
    /\ \/ /\ fs' = [fs EXCEPT ![zip_filename[c]] = Archive(c)]
          /\ Goto(c, "put")
          /\ UNCHANGED reported
       \/ /\ UNCHANGED fs
          /\ reported' = [reported EXCEPT ![c] = "other"]
          /\ Goto(c, "finally")
       \/ /\ fs' = [fs EXCEPT ![zip_filename[c]] = PartialArchive(c)]
          /\ reported' = [reported EXCEPT ![c] = "other"]
          /\ Goto(c, "finally")
    /\ UNCHANGED <<op, bucket, metadata, dest_uuid, zip_filename, staged_path, r, log>>

PutEvent(c, outcome) ==
    [ev |-> "put", bucket |-> bucket_name,
     key |-> destpath_of(dest_uuid[c], zip_filename[c]),
     ACL |-> "public-read", body |-> fs[zip_filename[c]], outcome |-> outcome]

\* lines 232-242: open the archive and put it; NoCredentialsError and any
\* other exception are caught and printed, the return value is then None
Put(c) ==
    /\ pc[c] = "put"
    /\ IF fs[zip_filename[c]] = NoFile
       THEN \* open(zip_filename, 'rb') raises, caught at line 241
            /\ reported' = [reported EXCEPT ![c] = "other"]
            /\ UNCHANGED <<bucket, staged_path, log>>
       ELSE \/ /\ bucket' = bucket \cup {[key |-> destpath_of(dest_uuid[c], zip_filename[c]),
                                         body |-> fs[zip_filename[c]], ACL |-> "public-read"]}
               /\ Logged(c, PutEvent(c, "ok"))
               /\ staged_path' = [staged_path EXCEPT ![c] = staged_path_of(dest_uuid[c], zip_filename[c])]
               /\ UNCHANGED reported
            \/ /\ Logged(c, PutEvent(c, "NoCredentialsError"))
               /\ reported' = [reported EXCEPT ![c] = "creds"]
               /\ UNCHANGED <<bucket, staged_path>>
            \/ /\ Logged(c, PutEvent(c, "Exception"))
               /\ reported' = [reported EXCEPT ![c] = "other"]
               /\ UNCHANGED <<bucket, staged_path>>
    /\ Goto(c, "finally")
    /\ UNCHANGED <<op, fs, metadata, dest_uuid, zip_filename, r>>

\* a _stage_data without the finally block
StageFinally_no_unlink(c) ==
    /\ pc[c] = "finally"
    /\ Goto(c, "check_staged")
    /\ UNCHANGED <<op, fs, bucket, metadata, dest_uuid, zip_filename, staged_path, reported, r, log>>

\* lines 243-244: os.unlink(zip_filename); when the file does not exist the
\* FileNotFoundError replaces the pending return value
StageFinally(c) ==
    /\ pc[c] = "finally"
    /\ IF fs[zip_filename[c]] = NoFile
       THEN /\ Finish(c, Raise("FileNotFoundError", zip_filename[c]))
            /\ staged_path' = [staged_path EXCEPT ![c] = None]
            /\ UNCHANGED fs
       ELSE /\ fs' = [fs EXCEPT ![zip_filename[c]] = NoFile]
            /\ Goto(c, "check_staged")
            /\ UNCHANGED staged_path
    /\ UNCHANGED <<op, bucket, metadata, dest_uuid, zip_filename, reported, r, log>>

\* a publish_servable without the early return of lines 180-181
CheckStaged_no_abort(c) ==
    /\ pc[c] = "check_staged"
    /\ metadata' = [metadata EXCEPT ![c] = set_transfer_method(@, staged_path[c])]
    /\ Goto(c, "validate")
    /\ UNCHANGED <<op, fs, bucket, dest_uuid, zip_filename, staged_path, reported, r, log>>

\* lines 179-184: return when nothing was staged, else mark the transfer method
CheckStaged(c) ==
    /\ pc[c] = "check_staged"
    /\ IF staged_path[c] = None
       THEN /\ Finish(c, Return(PyNone))
            /\ UNCHANGED metadata
       ELSE /\ metadata' = [metadata EXCEPT ![c] = set_transfer_method(@, staged_path[c])]
            /\ Goto(c, "validate")
    /\ UNCHANGED <<op, fs, bucket, dest_uuid, zip_filename, staged_path, reported, r, log>>

ValidateEvent(c, outcome) ==
    [ev |-> "validate", body |-> metadata[c], schema |-> "servable", outcome |-> outcome]

\* a publish_servable that catches the validator's exception and goes on
Validate_swallowed(c) ==
    /\ pc[c] = "validate"
    /\ \/ Logged(c, ValidateEvent(c, "ok"))
       \/ Logged(c, ValidateEvent(c, "ValidationError"))
    /\ Goto(c, "post")
    /\ UNCHANGED <<op, fs, bucket, metadata, dest_uuid, zip_filename, staged_path, reported, r>>

\* line 187: validate_against_dlhub_schema(metadata, 'servable')
Validate(c) ==
    /\ pc[c] = "validate"
    /\ \/ /\ Logged(c, ValidateEvent(c, "ok"))
          /\ Goto(c, "post")
       \/ /\ Logged(c, ValidateEvent(c, "ValidationError"))
          /\ Finish(c, Raise("ValidationError", "servable"))
    /\ UNCHANGED <<op, fs, bucket, metadata, dest_uuid, zip_filename, staged_path, reported, r>>

\* lines 190-193: post('publish', json_body=metadata), return the task id
PostPublish(c) ==
    /\ pc[c] = "post"
    /\ Logged(c, [ev |-> "http", method |-> "POST", path |-> "publish", body |-> metadata[c]])
    /\ \E t \in TaskIds : Finish(c, Return(PyStr(t)))
    /\ UNCHANGED <<op, fs, bucket, metadata, dest_uuid, zip_filename, staged_path, reported, r>>

(* ========================= publish_repository ========================= *)
BeginPublishRepository(c) ==
    /\ pc[c] = "idle"
    /\ Sequential(c)
    /\ \E repository \in Repositories :
          op' = [op EXCEPT ![c] = [name |-> "publish_repository", repository |-> repository]]
    /\ Goto(c, "post_repo")
    /\ UNCHANGED <<fs, bucket, metadata, dest_uuid, zip_filename, staged_path, reported, r, log>>

\* lines 205-209
PublishRepository(c) ==
    /\ pc[c] = "post_repo"
    /\ Logged(c, [ev |-> "http", method |-> "POST", path |-> "publish_repo",
                  body |-> [repository |-> op[c].repository]])
    /\ \E t \in TaskIds : Finish(c, Return(PyStr(t)))
    /\ UNCHANGED <<op, fs, bucket, metadata, dest_uuid, zip_filename, staged_path, reported, r>>

(* =========================== get_task_status ========================== *)
BeginGetTaskStatus(c) ==
    /\ pc[c] = "idle"
    /\ Sequential(c)
    /\ \E task_id \in TaskIds :
          op' = [op EXCEPT ![c] = [name |-> "get_task_status", task_id |-> task_id]]
    /\ Goto(c, "get_status")
    /\ UNCHANGED <<fs, bucket, metadata, dest_uuid, zip_filename, staged_path, reported, r, log>>

\* "{task_id}/status".format(task_id=task_id)
status_path(task_id) == task_id \o "/status"

StatusRequest(c) ==
    [ev |-> "http", method |-> "GET", path |-> status_path(op[c].task_id), body |-> PyNone]

\* a get_task_status that asks once more when the task is still pending
GetTaskStatus_retry(c) ==
    /\ pc[c] = "get_status"
    /\ \E st \in TaskStates :
          /\ log' = [log EXCEPT ![c] = IF st = "PENDING"
                                        THEN Append(Append(@, StatusRequest(c)), StatusRequest(c))
                                        ELSE Append(@, StatusRequest(c))]
          /\ Finish(c, Return(PyObj([status |-> st])))
    /\ UNCHANGED <<op, fs, bucket, metadata, dest_uuid, zip_filename, staged_path, reported, r>>

\* lines 106-107
GetTaskStatus(c) ==
    /\ pc[c] = "get_status"
    /\ Logged(c, StatusRequest(c))
    /\ \E st \in TaskStates : Finish(c, Return(PyObj([status |-> st])))
    /\ UNCHANGED <<op, fs, bucket, metadata, dest_uuid, zip_filename, staged_path, reported, r>>

(* ================================ run ================================= *)
BeginRun(c) ==
    /\ pc[c] = "idle"
    /\ Sequential(c)
    /\ \E author \in Authors, name \in Names, input_type \in InputTypes :
          op' = [op EXCEPT ![c] = [name |-> "run", author |-> author, servable |-> name,
                                   inputs |-> "x", input_type |-> input_type]]
    /\ Goto(c, "run_prepare")
    /\ UNCHANGED <<fs, bucket, metadata, dest_uuid, zip_filename, staged_path, reported, r, log>>

\* line 141
servable_path(author, name) == "servables/" \o author \o "/" \o name \o "/run"

\* codecs.encode(pkl.dumps(inputs), 'base64').decode()
pickle_base64(inputs) == [base64 |-> [pickle |-> inputs]]

\* lines 144-147
run_data(input_type, inputs) ==
    IF input_type = "python" THEN [python |-> pickle_base64(inputs)]
    ELSE [data |-> inputs]

\* line 151
not_recognized(input_type) == "Input type not recognized: " \o input_type

\* a run that treats every input type but 'python' and 'files' as json
RunPrepare_default_json(c) ==
    /\ pc[c] = "run_prepare"
    /\ IF op[c].input_type = "files"
       THEN Finish(c, Raise("NotImplementedError", "Files support is not yet implemented"))
       ELSE Goto(c, "run_post")
    /\ UNCHANGED <<op, fs, bucket, metadata, dest_uuid, zip_filename, staged_path, reported, r, log>>

\* lines 143-151: prepare the data or refuse the input type
RunPrepare(c) ==
    /\ pc[c] = "run_prepare"
    /\ IF op[c].input_type = "python" THEN Goto(c, "run_post")
       ELSE IF op[c].input_type = "json" THEN Goto(c, "run_post")
       ELSE IF op[c].input_type = "files"
            THEN Finish(c, Raise("NotImplementedError", "Files support is not yet implemented"))
       ELSE Finish(c, Raise("ValueError", not_recognized(op[c].input_type)))
    /\ UNCHANGED <<op, fs, bucket, metadata, dest_uuid, zip_filename, staged_path, reported, r, log>>

\* line 154: r = self.post(servable_path, json_body=data)
RunPost(c) ==
    /\ pc[c] = "run_post"
    /\ Logged(c, [ev |-> "http", method |-> "POST",
                  path |-> servable_path(op[c].author, op[c].servable),
                  body |-> run_data(op[c].input_type, op[c].inputs)])
    /\ \E s \in Statuses :
          r' = [r EXCEPT ![c] = [http_status |-> s, data |-> PyStr("out")]]
    /\ Goto(c, "run_check")
    /\ UNCHANGED <<op, fs, bucket, metadata, dest_uuid, zip_filename, staged_path, reported>>

\* a check that accepts every 2xx status
not_ok_2xx(http_status) == http_status < 200 \/ http_status >= 300

\* line 155: r.http_status is not 200 (identity of small ints is equality)
not_ok(http_status) == http_status # 200

\* lines 155-159
RunCheck(c) ==
    /\ pc[c] = "run_check"
    /\ IF not_ok(r[c].http_status)
       THEN Finish(c, Raise("Exception", r[c]))
       ELSE Finish(c, Return(r[c].data))
    /\ UNCHANGED <<op, fs, bucket, metadata, dest_uuid, zip_filename, staged_path, reported, r, log>>

(* ========================== specifications ============================ *)
StageSteps(c) ==
    \/ StageBegin(c)
    \/ MkStemp(c)
    \/ UnlinkPlaceholder(c)
    \/ GetZipFile(c)
    \/ Put(c)
    \/ StageFinally(c)

PublishSteps(c) ==
    \/ PublishToDict(c)
    \/ StageSteps(c)
    \/ CheckStaged(c)
    \/ Validate(c)
    \/ PostPublish(c)

\* one caller, one call at a time
Next ==
    \E c \in Calls :
        \/ BeginPublishServable(c)
        \/ PublishSteps(c)
        \/ BeginPublishRepository(c)
        \/ PublishRepository(c)
        \/ BeginGetTaskStatus(c)
        \/ GetTaskStatus(c)
        \/ BeginRun(c)
        \/ RunPrepare(c)
        \/ RunPost(c)
        \/ RunCheck(c)

Spec == Init /\ [][Next]_vars

\* publish_servable calls of one process in flight together
NextConcurrent ==
    \E c \in Calls :
        \/ BeginPublishServableConcurrent(c)
        \/ PublishSteps(c)

SpecConcurrent == Init /\ [][NextConcurrent]_vars

(* ------------------------------ typing -------------------------------- *)
Labels == {"idle", "done", "to_dict", "stage_begin", "mkstemp", "unlink_placeholder",
           "get_zip_file", "put", "finally", "check_staged", "validate", "post",
           "post_repo", "get_status", "run_prepare", "run_post", "run_check"}

TypeOK ==
    /\ pc \in [Calls -> Labels]
    /\ \A c \in Calls : zip_filename[c] \in TmpPaths \cup {None}
    /\ \A c \in Calls : dest_uuid[c] \in Uuids \cup {None}
    /\ \A c \in Calls : reported[c] \in {"nothing", "creds", "other"}
    /\ \A c \in Calls : ret[c].kind \in {"pending", "return", "raise"}
    /\ \A c \in Calls : (pc[c] = "done") <=> (ret[c] # Pending)

(* ============================== claims ================================ *)
IsPublish(c) == op[c].name = "publish_servable"
IsRun(c) == op[c].name = "run"

EventsOf(c, ev) == {i \in DOMAIN log[c] : log[c][i].ev = ev}
PublishPosts(c) == {i \in EventsOf(c, "http") : log[c][i].path = "publish"}

\* labels at which _stage_data holds an allocated temporary path
HoldsArchive == {"unlink_placeholder", "get_zip_file", "put", "finally"}
\* labels of publish_servable up to the return of _stage_data
BeforeInject == {"to_dict", "stage_begin", "mkstemp", "unlink_placeholder",
                 "get_zip_file", "put", "finally", "check_staged"}

\* C1: the validator is called only after _stage_data returned a non-empty
\* reference, and 'publish' is posted only after the validator accepted the
\* metadata: a call that posts has the events put (ok), validate (ok), POST,
\* in this order, and a call whose validator raised has posted nothing.
C1_OrderOfPublish ==
    \A c \in Calls : IsPublish(c) =>
        /\ \A i \in EventsOf(c, "validate") :
              /\ staged_path[c] # None
              /\ i = 2
              /\ log[c][1].ev = "put" /\ log[c][1].outcome = "ok"
              /\ has_transfer_method(log[c][i].body)
        /\ \A i \in PublishPosts(c) :
              /\ i = 3
              /\ log[c][2].ev = "validate" /\ log[c][2].outcome = "ok"
        /\ (\E i \in EventsOf(c, "validate") : log[c][i].outcome = "ValidationError")
              => /\ EventsOf(c, "http") = {}
                 /\ pc[c] = "done" /\ ret[c].kind = "raise"

C1_Witness ==
    \E c, d \in Calls :
        /\ PublishPosts(c) # {} /\ ret[c].kind = "return"
        /\ IsPublish(d) /\ ret[d] = Raise("ValidationError", "servable")

\* C2: whenever _stage_data returns or raises, the temporary file it
\* allocated does not exist.
C2_ArchiveDeleted ==
    [][\A c \in Calls :
          (pc[c] \in HoldsArchive /\ pc'[c] \notin HoldsArchive)
             => fs'[zip_filename[c]] = NoFile]_vars

C2_Witness ==
    \E c, d \in Calls :
        /\ IsPublish(c) /\ pc[c] = "done" /\ EventsOf(c, "put") # {}
        /\ log[c][1].outcome = "ok" /\ fs[zip_filename[c]] = NoFile
        /\ pc[d] = "check_staged" /\ reported[d] = "creds"
        /\ fs[zip_filename[d]] = NoFile

\* C3: after NoCredentialsError in the upload, _stage_data returns None
\* without raising and publish_servable returns None; the validator is not
\* called and nothing is posted.
C3_MissingCredentials ==
    \A c \in Calls : reported[c] = "creds" =>
        /\ pc[c] \in {"finally", "check_staged", "done"}
        /\ staged_path[c] = None
        /\ ret[c].kind # "raise"
        /\ pc[c] = "done" => ret[c] = Return(PyNone)
        /\ EventsOf(c, "validate") = {}
        /\ EventsOf(c, "http") = {}

C3_Witness ==
    \E c \in Calls : reported[c] = "creds" /\ pc[c] = "done" /\ ret[c] = Return(PyNone)

\* C4: after any other packaging or upload failure, also one raised by
\* get_zip_file before the archive exists, _stage_data raises nothing and
\* publish_servable returns None without a publish request.
C4_OtherFailuresAbort ==
    \A c \in Calls : reported[c] = "other" =>
        /\ ret[c].kind # "raise"
        /\ pc[c] = "done" => ret[c] = Return(PyNone)
        /\ EventsOf(c, "http") = {}

\* C5: publish_servable calls in flight together never hold the same
\* temporary path or the same identifier, and no call finds, uploads or
\* removes an archive written by another call.
C5_NoInterference ==
    /\ \A c, d \in Calls :
          (c # d /\ pc[c] \in HoldsArchive /\ pc[d] \in HoldsArchive)
             => /\ zip_filename[c] # zip_filename[d]
                /\ dest_uuid[c] # dest_uuid[d]
    /\ \A c \in Calls :
          pc[c] \in HoldsArchive => fs[zip_filename[c]].owner \in {0, c}
    /\ \A c \in Calls : \A i \in EventsOf(c, "put") : log[c][i].body.owner = c

\* C6: a model without input or output descriptor makes to_dict raise
\* ValueError; publish_servable then ends with that error, holding no
\* metadata mapping, having allocated no temporary file, uploaded nothing,
\* and called neither the validator nor HTTP.
C6_Precondition ==
    \A c \in Calls :
        (IsPublish(c) /\ to_dict_raises(op[c].model) /\ pc[c] # "to_dict")
           => /\ pc[c] = "done"
              /\ ret[c] = Raise("ValueError", "inputs/outputs not set")
              /\ metadata[c] = NoMetadata
              /\ zip_filename[c] = None /\ dest_uuid[c] = None
              /\ log[c] = <<>>

C6_Witness ==
    \E c \in Calls :
        /\ IsPublish(c) /\ op[c].model.input /\ ~op[c].model.output
        /\ ret[c].kind = "raise"

\* the reference s3://<bucket>/<prefix>/<uuid>
reference_form(uuid) ==
    <<"s", "3", ":", "/", "/">> \o bucket_name
        \o <<"/", "s", "e", "r", "v", "a", "b", "l", "e", "s", "/">> \o uuid

\* C7: transfer_method is absent until _stage_data has returned a reference
\* and is then set once and not changed; the bodies given to the validator
\* and to post('publish') carry {"S3": r}, r being the reference of this
\* call's staging, of the form s3://<bucket>/<prefix>/<uuid>, the parent of
\* the uploaded object's key.
C7_TransferMethod ==
    /\ [](\A c \in Calls : IsPublish(c) =>
            /\ pc[c] \in BeforeInject => ~has_transfer_method(metadata[c])
            /\ \A i \in EventsOf(c, "validate") \cup PublishPosts(c) :
                  /\ has_transfer_method(log[c][i].body)
                  /\ log[c][i].body.dlhub.transfer_method = [S3 |-> staged_path[c]]
                  /\ log[c][i].body = metadata[c]
                  /\ staged_path[c] = reference_form(dest_uuid[c])
                  /\ staged_path[c] = s3_scheme \o bucket_name \o <<sep>> \o dirname(log[c][1].key)
                  /\ staged_path[c] # s3_scheme \o bucket_name \o <<sep>> \o log[c][1].key)
    /\ [][\A c \in Calls :
            /\ has_transfer_method(metadata[c]) => metadata'[c] = metadata[c]
            /\ (~has_transfer_method(metadata[c]) /\ has_transfer_method(metadata'[c]))
                  => (pc[c] = "check_staged" /\ staged_path[c] # None)]_vars

C7_Witness ==
    \E c \in Calls :
        /\ PublishPosts(c) # {}
        /\ log[c][3].body.dlhub.transfer_method.S3 = reference_form(dest_uuid[c])

\* C8: run with input_type python or json posts once to
\* servables/{author}/{name}/run; it returns the response data exactly when
\* the status is 200 and otherwise raises an error that carries the response.
C8_RunStatus ==
    \A c \in Calls :
        (IsRun(c) /\ op[c].input_type \in {"python", "json"} /\ pc[c] = "done")
           => /\ Len(log[c]) = 1
              /\ log[c][1].ev = "http" /\ log[c][1].method = "POST"
              /\ log[c][1].path = "servables/alice/" \o op[c].servable \o "/run"
              /\ (ret[c].kind = "return") <=> (r[c].http_status = 200)
              /\ r[c].http_status = 200 => ret[c] = Return(r[c].data)
              /\ r[c].http_status # 200 => ret[c] = Raise("Exception", r[c])

C8_Witness ==
    \E c, d \in Calls :
        /\ IsRun(c) /\ pc[c] = "done" /\ r[c].http_status = 201
        /\ IsRun(d) /\ pc[d] = "done" /\ r[d].http_status = 200

C10_NoRetry ==
    \A c \in Calls :
        /\ (op[c].name = "get_task_status" /\ pc[c] = "done")
              => /\ Len(log[c]) = 1
                 /\ log[c][1].ev = "http" /\ log[c][1].method = "GET"
                 /\ log[c][1].path \in {"t1/status", "t2/status"}
                 /\ log[c][1].path = op[c].task_id \o "/status"
        /\ (op[c].name = "publish_repository" /\ pc[c] = "done")
              => /\ Len(log[c]) = 1
                 /\ log[c][1].ev = "http" /\ log[c][1].method = "POST"
                 /\ log[c][1].path = "publish_repo"
                 /\ zip_filename[c] = None /\ dest_uuid[c] = None
        /\ IsPublish(c)
              => /\ Cardinality(EventsOf(c, "put")) <= 1
                 /\ Cardinality(EventsOf(c, "http")) <= 1
                 /\ Cardinality(EventsOf(c, "validate")) <= 1

C10_Witness ==
    \E c, d \in Calls :
        /\ op[c].name = "get_task_status" /\ pc[c] = "done"
        /\ ret[c] = Return(PyObj([status |-> "PENDING"]))
        /\ op[d].name = "publish_repository" /\ pc[d] = "done"

====
